---- MODULE Spec2Model ----
(***************************************************************************)
(* The release workflow of scripts/auto-release.js: main() and the         *)
(* functions it calls (getOrCreatePR, waitForChecks,                       *)
(* attemptConflictResolution, createRelease), as a state machine over the  *)
(* hosting service and the working copy.                                   *)
(*                                                                         *)
(* Every external command (execCommand) is one action.  Its result is      *)
(* chosen among what the command can produce: a failure (execCommand       *)
(* returns null, or throws without allowFailure), text that JSON.parse     *)
(* rejects, or the data the hosting service holds.  pc names the source    *)
(* line of the next command: "wfc_185" is line 185 of waitForChecks.       *)
(*                                                                         *)
(* Time is counted in ticks from the start of waitForChecks; the loop      *)
(* budget and the sleep keep the code's names, scaled to ticks.            *)
(***************************************************************************)
EXTENDS Integers, Sequences, FiniteSets, TLC

\* ------------------------------------------------------------------ bounds
\* PR numbers the hosting service can hand out.
MaxPR == 2
\* waitForChecks' sleep between two cycles, in ticks (30 s in the code).
CHECK_INTERVAL == 2
\* waitForChecks' budget, in ticks (30 min in the code).
MAX_WAIT_TIME == 4
\* Longest time one external command of a poll cycle takes, in ticks.
MaxCallTime == 1
\* The request counters count up to this value and stay there.
CountCap == 2
\* Calls of getOrCreatePR the resolver harness makes.
MaxCalls == 2
\* Lines of the changelog generateReleaseNotes is given.
MaxLines == 4

\* ------------------------------------------------------------ vocabulary
BASE_BRANCH == "main"

Branches == {"main", "feature/x"}

PRIds == 1..MaxPR

\* A PR of the hosting service: not created yet, or in one of its states.
PRStates == {"NONE", "OPEN", "MERGED", "CLOSED"}

Mergeables == {"MERGEABLE", "CONFLICTING", "UNKNOWN"}

MergeStates == {"CLEAN", "DIRTY", "UNKNOWN"}

\* The buckets of gh pr checks; "other" is an element without a known
\* bucket (the alternate status API has no bucket field).
Buckets == {"pending", "pass", "fail", "cancel", "skipping"}

AnyBuckets == Buckets \cup {"other"}

\* A parsed check list, as the set of the buckets that occur in it: the
\* code reads a list only through the filters below and through length = 0.
CheckSets == SUBSET AnyBuckets

\* An external command returns at once, or after MaxCallTime.
CallTimes == {0, MaxCallTime}

Kinds == {"push", "create", "merge", "release", "forcePush", "checkout", "fetch"}

VARIABLES
    \* the hosting service and the working copy
    prs,            \* PR number -> state
    wbranch,        \* the branch checked out in the working copy
    tagExists,      \* the tag v<version> exists
    manifest,       \* the version package.json holds in the working copy
    tempFile,       \* tmp/release-notes.txt exists
    \* main() and its callees
    pc,             \* the next command, by function and source line
    exitCode,       \* -1 while running, then the process exit code
    outcome,        \* the terminal outcome, "none" while running
    currentBranch,  \* main's currentBranch
    prNumber,       \* main's prNumber, 0 before getOrCreatePR returned
    elapsed,        \* Date.now() - startTime of waitForChecks
    prData,         \* prData.mergeable of the current poll cycle
    checksPass,     \* waitForChecks' return value: "none", "true" or "false"
    mergeSuccessful,
    \* what the run has done so far
    calls,          \* requests issued, by kind
    polls,          \* poll cycles begun (retryCount), counted as calls is
    cycleCalls,     \* time the commands of the current cycle took
    checks,         \* the check set the last command fetched, or NoChecks
    wfcReason,      \* why waitForChecks returned
    fetched,        \* the check commands of the current cycle that failed, until one gives output
    mergeCmd,       \* "none", "ok" or "failed": what gh pr merge reported
    recheck,        \* what the re-fetch after a failed merge showed
    existingTag,    \* "none", or what git tag -l returned
    firstList,      \* what getOrCreatePR's first list query returned
    createRes,      \* what gh pr create gave: "none", "failed", "nonumber", "number"
    response,       \* the response gh pr create printed, or NoResponse
    lastList,       \* what the last list query after gh pr create returned
    viewed,         \* the PR view main fetched after the checks, or NoView
    acr,            \* attemptConflictResolution: what each command reported
    version,        \* main: the version read at the start, or "none"
    notesVersion,   \* generateReleaseNotes: the version it read, or "none"
    reviewed,       \* the mergeable field re-fetched after the resolution, or "unread"
    fileRelease,    \* "none", "ok" or "failed": gh release create --notes-file
    inlineRelease,  \* the inline gh release create of the catch: "none", "ok", "failed"
    prev,           \* the resolver harness: the previous call's result
    nCalls,         \* the resolver harness: calls made
    earlier,        \* what the run before this one left, NoEarlier in a first run
    changelog,      \* the lines of CHANGELOG.md that generateReleaseNotes reads
    notes,          \* what generateReleaseNotes returned
    pendingOnly,    \* every cycle so far fetched pending checks, none failed
    \* the release panel of the editor
    editor,         \* the workspace the panel looks at: folder, branch, changes
    toHost,         \* the messages the page posted, not yet handled by the host
    toPage,         \* the messages the host posted, not yet handled by the page
    page,           \* the page: its elements and the call its script is in
    host,           \* the host: the panel and its createRelease handler
    conflictOnly,   \* every cycle so far read the PR open and CONFLICTING with an empty check list
    happy           \* every command so far succeeded on a fresh PR

world == <<prs, wbranch, tagExists, tempFile>>
wfcVars == <<elapsed, prData, checksPass, polls, cycleCalls, checks, wfcReason, fetched,
            pendingOnly, conflictOnly>>
mergeVars == <<mergeSuccessful, mergeCmd, recheck>>
gopVars == <<prNumber, firstList, createRes, response, lastList>>
acrVars == <<viewed, acr, reviewed>>
crVars == <<existingTag, fileRelease, inlineRelease>>
versionVars == <<manifest, version, notesVersion>>
harness == <<prev, nCalls>>
aside == <<earlier, changelog, notes>>
panel == <<editor, toHost, toPage, page, host>>
vars == <<prs, wbranch, tagExists, tempFile, pc, exitCode, outcome, currentBranch,
          prNumber, elapsed, prData, checksPass, mergeSuccessful, calls, polls,
          cycleCalls, checks, wfcReason, mergeCmd, recheck, existingTag, firstList,
          createRes, lastList, viewed, acr, fileRelease, prev, nCalls, pendingOnly,
          happy, earlier, changelog, notes, fetched, reviewed, manifest, version,
          notesVersion, response, inlineRelease, conflictOnly, editor, toHost,
          toPage, page, host>>

\* ---------------------------------------------------------------- helpers
NoChecks == {"-"}

NoList == [kind |-> "none", val |-> <<>>]

NoPrev == [list |-> NoList, pr |-> 0, creates |-> 0]

NoView == [mergeable |-> "none", mergeStateStatus |-> "none"]

\* No command of attemptConflictResolution issued yet.
NoAcr == [fetch |-> "none", rebase |-> "none", merge |-> "none", push |-> "none"]

Min(a, b) == IF a < b THEN a ELSE b

\* One more request of kind k.
Count(k) == [calls EXCEPT ![k] = Min(@ + 1, CountCap)]

\* process.exit(code), or main()'s promise settling: the run is over.
Exit(code, what) ==
    /\ pc' = "exit"
    /\ exitCode' = code
    /\ outcome' = what

\* The open PRs of (head, base) as gh pr list returns them: newest first.
RECURSIVE OpenFrom(_, _)
OpenFrom(p, n) ==
    IF n = 0 THEN <<>>
    ELSE IF p[n] = "OPEN" THEN <<n>> \o OpenFrom(p, n - 1)
    ELSE OpenFrom(p, n - 1)

OpenList(p) == OpenFrom(p, MaxPR)

\* What a gh pr list command can return: null, text that does not parse,
\* or the list.
ListResults(p) ==
    {[kind |-> "fail", val |-> <<>>], [kind |-> "garbage", val |-> <<>>],
     [kind |-> "ok", val |-> OpenList(p)]}

\* The smallest PR number not handed out yet, 0 when there is none.
NextId(p) ==
    IF \E n \in PRIds : p[n] = "NONE"
    THEN CHOOSE n \in PRIds : p[n] = "NONE" /\ \A m \in PRIds : p[m] = "NONE" => n <= m
    ELSE 0

\* The hosting service hands out PR numbers in order.
WellNumbered(p) == \A n \in PRIds : p[n] = "NONE" => \A m \in PRIds : m > n => p[m] = "NONE"

\* gh pr create printed nothing any pattern matches, or was not called.
NoResponse == [hash |-> 0, pull |-> 0, tail |-> 0]

\* No check command of this cycle has failed, or one of them gave output.
NoFetched == [checks |-> "none", alt |-> "none"]

\* No status received yet: let currentStatus = null.
NoStatus == [branch |-> "none", dirty |-> FALSE]

\* The page as the HTML of the panel defines it, before its script runs:
\* the loading element hidden (.loading {display: none}), the refresh
\* button enabled, the Create Release button disabled.
FreshPage ==
    [loading |-> FALSE, refreshDisabled |-> FALSE, createDisabled |-> TRUE,
     warning |-> FALSE, currentStatus |-> NoStatus, fn |-> "load", arg |-> NoStatus,
     depth |-> 0, error |-> FALSE, last |-> "none"]

\* No page: the panel is not open.
ClosedPage == [FreshPage EXCEPT !.fn = "closed"]

NoEarlier == [merged |-> FALSE, tag |-> FALSE, pr |-> 0]

\* CHANGELOG.md not read, and no notes made of it.
NoChangelog == [exists |-> FALSE, lines |-> <<>>]

NoNotes == [kind |-> "none", lines |-> <<>>]

\* The run goes on at label l.
Goto(l) ==
    /\ pc' = l
    /\ UNCHANGED <<exitCode, outcome>>

\* ------------------------------------------------------------------- Init
\* The versions a manifest may hold: the one of the branch to release and
\* another one.
Versions == {"1.1.0", "1.0.0"}

\* The world a first run starts in: the tag of the version is not there
\* yet (the other actors may push it).
InitWorld ==
    /\ prs \in {p \in [PRIds -> PRStates] : WellNumbered(p)}
    /\ wbranch \in Branches
    /\ tagExists = FALSE
    /\ tempFile = FALSE
    /\ manifest = "1.1.0"

InitRun ==
    /\ exitCode = -1
    /\ outcome = "none"
    /\ currentBranch = "none"
    /\ prNumber = 0
    /\ elapsed = 0
    /\ prData = "none"
    /\ checksPass = "none"
    /\ mergeSuccessful = FALSE
    /\ calls = [k \in Kinds |-> 0]
    /\ polls = 0
    /\ cycleCalls = 0
    /\ checks = NoChecks
    /\ wfcReason = "none"
    /\ fetched = NoFetched
    /\ mergeCmd = "none"
    /\ recheck = "none"
    /\ existingTag = "none"
    /\ firstList = NoList
    /\ createRes = "none"
    /\ response = NoResponse
    /\ lastList = NoList
    /\ viewed = NoView
    /\ acr = NoAcr
    /\ reviewed = "none"
    /\ version = "none"
    /\ notesVersion = "none"
    /\ fileRelease = "none"
    /\ inlineRelease = "none"
    /\ prev = NoPrev
    /\ nCalls = 0
    /\ pendingOnly = TRUE
    /\ conflictOnly = FALSE
    /\ happy = (OpenList(prs) = <<>> /\ NextId(prs) # 0 /\ wbranch = "feature/x" /\ ~tagExists)

\* A first run; the changelog is not looked into.
InitAside ==
    /\ earlier = NoEarlier
    /\ changelog = NoChangelog
    /\ notes = NoNotes

\* The script run from a terminal: no panel is open.
NoPanel ==
    /\ editor = [workspace |-> TRUE, branch |-> "feature/x", dirty |-> FALSE]
    /\ toHost = <<>>
    /\ toPage = <<>>
    /\ page = ClosedPage
    /\ host = [open |-> FALSE, dialog |-> FALSE, result |-> "none"]

Init ==
    /\ InitWorld
    /\ InitRun
    /\ InitAside
    /\ NoPanel
    /\ pc = "main_545"

\* ------------------------------------------------- main: the prerequisites
\* gh version (execCommandSafely): null, or help text, means not installed.
CheckGh ==
    /\ pc = "main_545"
    /\ \E ok \in BOOLEAN :
        /\ IF ok THEN Goto("main_552") ELSE Exit(1, "PrerequisiteFailed")
        /\ happy' = (happy /\ ok)
    /\ UNCHANGED <<world, currentBranch, gopVars, wfcVars, mergeVars, acrVars, calls, crVars, versionVars, harness, panel, aside>>

\* gh auth status.
CheckAuth ==
    /\ pc = "main_552"
    /\ \E ok \in BOOLEAN :
        /\ IF ok THEN Goto("main_559") ELSE Exit(1, "PrerequisiteFailed")
        /\ happy' = (happy /\ ok)
    /\ UNCHANGED <<world, currentBranch, gopVars, wfcVars, mergeVars, acrVars, calls, crVars, versionVars, harness, panel, aside>>

\* hasUncommittedChanges: git status --porcelain throws, or prints the
\* changes, or prints nothing.
CheckDirty ==
    /\ pc = "main_559"
    /\ \E r \in {"throw", "dirty", "clean"} :
        /\ CASE r = "throw" -> Exit(1, "Unexpected")
             [] r = "dirty" -> Exit(1, "PrerequisiteFailed")
             [] OTHER -> Goto("main_564")
        /\ happy' = (happy /\ r = "clean")
    /\ UNCHANGED <<world, currentBranch, gopVars, wfcVars, mergeVars, acrVars, calls, crVars, versionVars, harness, panel, aside>>

\* ReadContext with the push issued before the branch is tested.
ReadContext_PushFirst ==
    /\ pc = "main_564"
    /\ \E ok \in BOOLEAN :
        /\ IF ~ok
           THEN Exit(1, "Unexpected") /\ UNCHANGED <<currentBranch, version, calls>>
           ELSE /\ currentBranch' = wbranch
                /\ version' = manifest
                /\ calls' = Count("push")
                /\ IF wbranch = BASE_BRANCH
                   THEN Exit(1, "PrerequisiteFailed")
                   ELSE Goto("main_579")
        /\ happy' = (happy /\ ok /\ wbranch # BASE_BRANCH)
    /\ UNCHANGED <<world, gopVars, wfcVars, mergeVars, acrVars, crVars, manifest, notesVersion,
                   harness, panel, aside>>

\* getCurrentBranch, getPackageVersion, getLatestCommitMessage, then the
\* test of the branch against BASE_BRANCH.
ReadContext ==
    /\ pc = "main_564"
    /\ \E ok \in BOOLEAN :
        /\ IF ~ok
           THEN Exit(1, "Unexpected") /\ UNCHANGED <<currentBranch, version>>
           ELSE /\ currentBranch' = wbranch
                /\ version' = manifest
                /\ IF wbranch = BASE_BRANCH
                   THEN Exit(1, "PrerequisiteFailed")
                   ELSE Goto("main_579")
        /\ happy' = (happy /\ ok /\ wbranch # BASE_BRANCH)
    /\ UNCHANGED <<world, gopVars, wfcVars, mergeVars, acrVars, calls, crVars, manifest,
                   notesVersion, harness, panel, aside>>

\* git push origin <branch>.
Push ==
    /\ pc = "main_579"
    /\ calls' = Count("push")
    /\ \E ok \in BOOLEAN :
        /\ IF ok THEN Goto("gop_437") ELSE Exit(1, "Unexpected")
        /\ happy' = (happy /\ ok)
    /\ UNCHANGED <<world, currentBranch, gopVars, wfcVars, mergeVars, acrVars, crVars, versionVars, harness, panel, aside>>

\* ------------------------------------------------------------ getOrCreatePR
\* findExistingPR taking the last PR of the list, not the first.
findExistingPR_Last(r) == IF r.kind = "ok" /\ Len(r.val) > 0 THEN r.val[Len(r.val)] ELSE 0

\* findExistingPR on the result of its list command: the first PR's number,
\* or null (0).
findExistingPR(r) == IF r.kind = "ok" /\ Len(r.val) > 0 THEN Head(r.val) ELSE 0

\* The response of gh pr create, by what each pattern of extractPRNumber
\* finds in it: the digits after '#', after 'pull/', after the last '/'
\* (0: the pattern does not match).
Responses == [hash : 0..MaxPR, pull : 0..MaxPR, tail : 0..MaxPR]

\* The patterns with the URL path segment tried before the inline reference.
extractPRNumber_UrlFirst(resp) ==
    IF resp.pull # 0 THEN resp.pull
    ELSE IF resp.hash # 0 THEN resp.hash
    ELSE resp.tail

\* The patterns of extractPRNumber, in its order; 0 when none matches.
extractPRNumber(resp) ==
    IF resp.hash # 0 THEN resp.hash
    ELSE IF resp.pull # 0 THEN resp.pull
    ELSE resp.tail

\* getOrCreatePR's first findExistingPR.
GopFind ==
    /\ pc = "gop_437"
    /\ \E r \in ListResults(prs) :
        /\ firstList' = r
        /\ prNumber' = findExistingPR(r)
        /\ IF findExistingPR(r) # 0 THEN Goto("gop_ret") ELSE Goto("gop_459")
        /\ happy' = (happy /\ r.kind = "ok" /\ r.val = <<>>)
    /\ UNCHANGED <<world, currentBranch, createRes, response, lastList, wfcVars, mergeVars, acrVars, calls, crVars, versionVars, harness, panel, aside>>

\* gh pr create.  It fails (null, or no output), and the PR may have been
\* created all the same; or it creates the PR and prints a response.
GopCreate ==
    /\ pc = "gop_459"
    /\ calls' = Count("create")
    /\ \/ /\ \/ UNCHANGED prs
             \/ /\ NextId(prs) # 0
                /\ prs' = [prs EXCEPT ![NextId(prs)] = "OPEN"]
          /\ Goto("gop_466")
          /\ createRes' = "failed"
          /\ UNCHANGED <<prNumber, response>>
          /\ happy' = FALSE
       \/ /\ NextId(prs) # 0
          /\ prs' = [prs EXCEPT ![NextId(prs)] = "OPEN"]
          /\ \E resp \in Responses :
              /\ response' = resp
              /\ prNumber' = extractPRNumber(resp)
              /\ createRes' = IF extractPRNumber(resp) # 0 THEN "number" ELSE "nonumber"
              /\ IF extractPRNumber(resp) # 0 THEN Goto("gop_ret") ELSE Goto("epn_391")
              /\ happy' = (happy /\ resp.hash \in {0, NextId(prs)}
                                 /\ resp.pull \in {0, NextId(prs)}
                                 /\ resp.tail \in {0, NextId(prs)})
    /\ UNCHANGED <<wbranch, tagExists, tempFile, currentBranch, firstList, lastList, wfcVars,
                   mergeVars, acrVars, crVars, versionVars, harness, panel, aside>>

\* The failed create ending the run without a second look for the PR.
GopFindAfterFailure_NoRequery ==
    /\ pc = "gop_466"
    /\ Exit(1, "PRResolutionFailed")
    /\ happy' = FALSE
    /\ UNCHANGED <<world, currentBranch, gopVars, wfcVars, mergeVars, acrVars,
                   calls, crVars, versionVars, harness, panel, aside>>

\* After a failed create: findExistingPR again, process.exit(1) if none.
GopFindAfterFailure ==
    /\ pc = "gop_466"
    /\ \E r \in ListResults(prs) :
        /\ lastList' = r
        /\ prNumber' = findExistingPR(r)
        /\ IF findExistingPR(r) # 0 THEN Goto("gop_ret") ELSE Exit(1, "PRResolutionFailed")
    /\ happy' = FALSE
    /\ UNCHANGED <<world, currentBranch, firstList, createRes, response, wfcVars, mergeVars, acrVars,
                   calls, crVars, versionVars, harness, panel, aside>>

\* extractPRNumber's fallback: the list command by branch name.
ExtractFallback ==
    /\ pc = "epn_391"
    /\ \E r \in ListResults(prs) :
        /\ lastList' = r
        /\ prNumber' = findExistingPR(r)
        /\ IF findExistingPR(r) # 0 THEN Goto("gop_ret") ELSE Goto("gop_485")
        /\ happy' = (happy /\ r.kind = "ok")
    /\ UNCHANGED <<world, currentBranch, firstList, createRes, response, wfcVars, mergeVars, acrVars,
                   calls, crVars, versionVars, harness, panel, aside>>

\* No number from the response: findExistingPR, process.exit(1) if none.
GopFindAfterExtract ==
    /\ pc = "gop_485"
    /\ \E r \in ListResults(prs) :
        /\ lastList' = r
        /\ prNumber' = findExistingPR(r)
        /\ IF findExistingPR(r) # 0 THEN Goto("gop_ret") ELSE Exit(1, "PRResolutionFailed")
        /\ happy' = (happy /\ r.kind = "ok")
    /\ UNCHANGED <<world, currentBranch, firstList, createRes, response, wfcVars, mergeVars, acrVars,
                   calls, crVars, versionVars, harness, panel, aside>>

\* main: getOrCreatePR returned, waitForChecks is called.
MainGotPR ==
    /\ pc = "gop_ret"
    /\ Goto("wfc_174")
    /\ firstList' = NoList
    /\ createRes' = "none"
    /\ response' = NoResponse
    /\ lastList' = NoList
    /\ UNCHANGED <<world, currentBranch, prNumber, wfcVars, mergeVars, acrVars, calls, crVars, versionVars,
                   harness, panel, aside, happy>>

\* ------------------------------------------------------------ waitForChecks
\* The filters of waitForChecks over the parsed check list.
pendingChecks(c) == {b \in c : b = "pending"}

\* The filter for the failed checks without the cancel bucket.
failedChecks_FailOnly(c) == {b \in c : b = "fail"}

failedChecks(c) == {b \in c : b = "fail" \/ b = "cancel"}

succeededChecks(c) == {b \in c : b = "pass"}

skippedChecks(c) == {b \in c : b = "skipping"}

\* checkDecision taking an empty check list for passed checks.
checkDecision_EmptyPasses(c, m) ==
    IF c = {}
    THEN "true"
    ELSE IF failedChecks(c) # {} THEN "false"
    ELSE IF pendingChecks(c) = {}
         THEN IF succeededChecks(c) # {} \/ skippedChecks(c) # {} THEN "true"
              ELSE IF m = "MERGEABLE" THEN "true" ELSE "sleep"
    ELSE "sleep"

\* checkDecision with skipped checks not counted as completed checks.
checkDecision_PassOnly(c, m) ==
    IF c = {}
    THEN IF m = "MERGEABLE" THEN "true" ELSE "sleep"
    ELSE IF failedChecks(c) # {} THEN "false"
    ELSE IF pendingChecks(c) = {}
         THEN IF succeededChecks(c) # {} THEN "true"
              ELSE IF m = "MERGEABLE" THEN "true" ELSE "sleep"
    ELSE "sleep"

\* checkDecision failing at once on an empty list of a conflicting PR.
checkDecision_ConflictFails(c, m) ==
    IF c = {}
    THEN IF m = "MERGEABLE" THEN "true"
         ELSE IF m = "CONFLICTING" THEN "false" ELSE "sleep"
    ELSE IF failedChecks(c) # {} THEN "false"
    ELSE IF pendingChecks(c) = {}
         THEN IF succeededChecks(c) # {} \/ skippedChecks(c) # {} THEN "true"
              ELSE IF m = "MERGEABLE" THEN "true" ELSE "sleep"
    ELSE "sleep"

\* What a poll cycle does with the parsed check list c of a PR whose
\* mergeable field is m: return true, return false, or sleep and poll again.
checkDecision(c, m) ==
    IF c = {}
    THEN IF m = "MERGEABLE" THEN "true" ELSE "sleep"
    ELSE IF failedChecks(c) # {} THEN "false"
    ELSE IF pendingChecks(c) = {}
         THEN IF succeededChecks(c) # {} \/ skippedChecks(c) # {} THEN "true"
              ELSE IF m = "MERGEABLE" THEN "true" ELSE "sleep"
    ELSE "sleep"

\* The fallback failing on every value other than MERGEABLE.
mergeableFallback_UnknownFails(m) ==
    IF m = "MERGEABLE" THEN "true" ELSE "false"

\* With both check commands failed: the decision on mergeable alone.
mergeableFallback(m) ==
    IF m = "MERGEABLE" THEN "true"
    ELSE IF m = "CONFLICTING" THEN "false"
    ELSE "sleep"

\* The loop test with <= for <.
withinBudget_Inclusive(t) == t <= MAX_WAIT_TIME

\* The loop test of waitForChecks.
withinBudget(t) == t < MAX_WAIT_TIME

\* A command of the cycle took d ticks.  startTime is a local of
\* waitForChecks: when the command makes it return, the clock is gone (the
\* return on the loop test keeps the reading it was decided on).
Tick(d) ==
    IF pc' = "main_588"
    THEN elapsed' = 0 /\ cycleCalls' = 0
    ELSE elapsed' = elapsed + d /\ cycleCalls' = cycleCalls + d

WfcReturn(val, why) ==
    /\ checksPass' = val
    /\ wfcReason' = why
    /\ Goto("main_588")

WfcSleep ==
    /\ Goto("wfc_sleep")
    /\ UNCHANGED <<checksPass, wfcReason>>

\* gh version for the debug log, then startTime = Date.now().
WfcStart ==
    /\ pc = "wfc_174"
    /\ Goto("wfc_180")
    /\ elapsed' = 0
    /\ conflictOnly' = TRUE
    /\ UNCHANGED <<world, currentBranch, gopVars, prData, checksPass, polls, cycleCalls,
                   checks, wfcReason, fetched, pendingOnly, mergeVars, acrVars, calls, crVars, versionVars,
                   harness, panel, aside, happy>>

\* while (Date.now() - startTime < MAX_WAIT_TIME): the next cycle begins,
\* or the loop ends and waitForChecks returns false.
WfcLoop ==
    /\ pc = "wfc_180"
    /\ IF withinBudget(elapsed)
       THEN /\ Goto("wfc_185")
            /\ polls' = Min(polls + 1, CountCap)
            /\ cycleCalls' = 0
            /\ UNCHANGED <<checksPass, wfcReason>>
       ELSE /\ WfcReturn("false", "timeout")
            /\ UNCHANGED <<polls, cycleCalls>>
    /\ UNCHANGED <<world, currentBranch, gopVars, elapsed, prData, checks, fetched, pendingOnly, conflictOnly,
                   mergeVars, acrVars, calls, crVars, versionVars, harness, panel, aside, happy>>

\* The view taking a closed PR for one to poll again.
WfcView_ClosedRetries ==
    /\ pc = "wfc_185"
    /\ \/ /\ \E r \in {"fail", "garbage"} : WfcSleep
          /\ pendingOnly' = FALSE
          /\ conflictOnly' = FALSE
          /\ happy' = FALSE
          /\ UNCHANGED prData
       \/ /\ prs[prNumber] # "NONE"
          /\ \E m \in Mergeables :
              /\ prData' = m
              /\ CASE prs[prNumber] = "MERGED" -> WfcReturn("true", "merged")
                   [] prs[prNumber] = "CLOSED" -> WfcSleep
                   [] OTHER -> Goto("wfc_218") /\ UNCHANGED <<checksPass, wfcReason>>
              /\ pendingOnly' = (pendingOnly /\ prs[prNumber] = "OPEN")
              /\ conflictOnly' = (conflictOnly /\ prs[prNumber] = "OPEN" /\ m = "CONFLICTING")
              /\ happy' = (happy /\ prs[prNumber] = "OPEN" /\ m = "MERGEABLE")
    /\ \E d \in CallTimes : Tick(d)
    /\ UNCHANGED <<world, currentBranch, gopVars, polls, checks, fetched, mergeVars, acrVars,
                   calls, crVars, versionVars, harness, panel, aside>>

\* gh pr view --json state,mergeable: null or unparsable, else the PR's
\* state and its mergeable field.
WfcView ==
    /\ pc = "wfc_185"
    /\ \/ /\ \E r \in {"fail", "garbage"} : WfcSleep
          /\ pendingOnly' = FALSE
          /\ conflictOnly' = FALSE
          /\ happy' = FALSE
          /\ UNCHANGED prData
       \/ /\ prs[prNumber] # "NONE"
          /\ \E m \in Mergeables :
              /\ prData' = m
              /\ CASE prs[prNumber] = "MERGED" -> WfcReturn("true", "merged")
                   [] prs[prNumber] = "CLOSED" -> WfcReturn("false", "closed")
                   [] OTHER -> Goto("wfc_218") /\ UNCHANGED <<checksPass, wfcReason>>
              /\ pendingOnly' = (pendingOnly /\ prs[prNumber] = "OPEN")
              /\ conflictOnly' = (conflictOnly /\ prs[prNumber] = "OPEN" /\ m = "CONFLICTING")
              /\ happy' = (happy /\ prs[prNumber] = "OPEN" /\ m = "MERGEABLE")
    /\ \E d \in CallTimes : Tick(d)
    /\ UNCHANGED <<world, currentBranch, gopVars, polls, checks, fetched, mergeVars, acrVars,
                   calls, crVars, versionVars, harness, panel, aside>>

\* The parsed check list c is classified and the cycle ends.
Evaluate(c) ==
    /\ checks' = c
    /\ CASE checkDecision(c, prData) = "true" -> WfcReturn("true", "passed")
         [] checkDecision(c, prData) = "false" -> WfcReturn("false", "failed")
         [] OTHER -> WfcSleep
    /\ pendingOnly' = (pendingOnly /\ pendingChecks(c) # {} /\ failedChecks(c) = {})
    /\ conflictOnly' = (conflictOnly /\ c = {})
    /\ happy' = (happy /\ c = {"pass"})

\* gh pr checks failing straight into the mergeable heuristic.
WfcChecks_NoAlternate ==
    /\ pc = "wfc_218"
    /\ \/ /\ CASE mergeableFallback(prData) = "true" -> WfcReturn("true", "mergeable")
               [] mergeableFallback(prData) = "false" -> WfcReturn("false", "conflicting")
               [] OTHER -> WfcSleep
          /\ fetched' = [fetched EXCEPT !.checks = "failed"]
          /\ pendingOnly' = FALSE
          /\ conflictOnly' = FALSE
          /\ happy' = FALSE
          /\ UNCHANGED checks
       \/ /\ WfcSleep
          /\ fetched' = NoFetched
          /\ pendingOnly' = FALSE
          /\ conflictOnly' = FALSE
          /\ happy' = FALSE
          /\ UNCHANGED checks
       \/ /\ \E c \in CheckSets : Evaluate(c)
          /\ fetched' = NoFetched
    /\ \E d \in CallTimes : Tick(d)
    /\ UNCHANGED <<world, currentBranch, gopVars, prData, polls, mergeVars, acrVars, calls,
                   crVars, versionVars, harness, panel, aside>>

\* gh pr checks --json bucket,state,name.
WfcChecks ==
    /\ pc = "wfc_218"
    /\ \/ /\ Goto("wfc_228")
          /\ fetched' = [fetched EXCEPT !.checks = "failed"]
          /\ UNCHANGED <<checksPass, wfcReason, checks, pendingOnly, conflictOnly>>
          /\ happy' = FALSE
       \/ /\ WfcSleep
          /\ fetched' = NoFetched
          /\ pendingOnly' = FALSE
          /\ conflictOnly' = FALSE
          /\ happy' = FALSE
          /\ UNCHANGED checks
       \/ /\ \E c \in CheckSets : Evaluate(c)
          /\ fetched' = NoFetched
    /\ \E d \in CallTimes : Tick(d)
    /\ UNCHANGED <<world, currentBranch, gopVars, prData, polls, mergeVars, acrVars, calls,
                   crVars, versionVars, harness, panel, aside>>

\* The alternate status API, after gh pr checks failed: null (the decision
\* falls to mergeable), unparsable text, a value that is no array (its
\* filter call throws), or a list.
WfcAltChecks ==
    /\ pc = "wfc_228"
    /\ \/ /\ CASE mergeableFallback(prData) = "true" -> WfcReturn("true", "mergeable")
               [] mergeableFallback(prData) = "false" -> WfcReturn("false", "conflicting")
               [] OTHER -> WfcSleep
          /\ fetched' = [fetched EXCEPT !.alt = "failed"]
          /\ pendingOnly' = FALSE
          /\ conflictOnly' = FALSE
          /\ UNCHANGED checks
       \/ /\ WfcSleep
          /\ fetched' = NoFetched
          /\ pendingOnly' = FALSE
          /\ conflictOnly' = FALSE
          /\ UNCHANGED checks
       \/ /\ Exit(1, "Unexpected")
          /\ fetched' = [fetched EXCEPT !.alt = "notArray"]
          /\ pendingOnly' = FALSE
          /\ conflictOnly' = FALSE
          /\ UNCHANGED <<checksPass, wfcReason, checks>>
       \/ /\ \E c \in CheckSets : Evaluate(c)
          /\ fetched' = NoFetched
    /\ happy' = FALSE
    /\ \E d \in CallTimes : Tick(d)
    /\ UNCHANGED <<world, currentBranch, gopVars, prData, polls, mergeVars, acrVars, calls,
                   crVars, versionVars, harness, panel, aside>>

\* The sleep with startTime taken anew for the next cycle.
WfcSleepStep_RestartsClock ==
    /\ pc = "wfc_sleep"
    /\ Goto("wfc_180")
    /\ elapsed' = 0
    /\ checks' = NoChecks
    /\ fetched' = NoFetched
    /\ prData' = "none"
    /\ UNCHANGED <<world, currentBranch, gopVars, checksPass, polls, cycleCalls, wfcReason,
                   pendingOnly, conflictOnly, mergeVars, acrVars, calls, crVars, versionVars, harness, panel, aside, happy>>

\* await sleep(CHECK_INTERVAL); the fetched list is dropped.
WfcSleepStep ==
    /\ pc = "wfc_sleep"
    /\ Goto("wfc_180")
    /\ elapsed' = elapsed + CHECK_INTERVAL
    /\ checks' = NoChecks
    /\ fetched' = NoFetched
    /\ prData' = "none"
    /\ UNCHANGED <<world, currentBranch, gopVars, checksPass, polls, cycleCalls, wfcReason,
                   pendingOnly, conflictOnly, mergeVars, acrVars, calls, crVars, versionVars, harness, panel, aside, happy>>

\* main going on to the merge whatever waitForChecks returned.
MainChecked_GoesOn ==
    /\ pc = "main_588"
    /\ Goto("main_596")
    /\ checks' = NoChecks
    /\ fetched' = NoFetched
    /\ prData' = "none"
    /\ elapsed' = 0
    /\ cycleCalls' = 0
    /\ pendingOnly' = TRUE
    /\ conflictOnly' = (conflictOnly /\ checksPass = "false")
    /\ UNCHANGED <<world, currentBranch, gopVars, checksPass, polls, wfcReason,
                   mergeVars, acrVars, calls, crVars, versionVars, harness, panel, aside, happy>>

\* main leaving with process.exit() and no code on failed checks.
MainChecked_PlainExit ==
    /\ pc = "main_588"
    /\ IF checksPass = "false"
       THEN Exit(0, IF wfcReason = "timeout" THEN "Timeout" ELSE "ChecksFailed")
       ELSE Goto("main_596")
    /\ checks' = NoChecks
    /\ fetched' = NoFetched
    /\ prData' = "none"
    /\ elapsed' = 0
    /\ cycleCalls' = 0
    /\ pendingOnly' = TRUE
    /\ conflictOnly' = (conflictOnly /\ checksPass = "false")
    /\ UNCHANGED <<world, currentBranch, gopVars, checksPass, polls, wfcReason,
                   mergeVars, acrVars, calls, crVars, versionVars, harness, panel, aside, happy>>

\* main: if (!checksPass) process.exit(1).
MainChecked ==
    /\ pc = "main_588"
    /\ IF checksPass = "false"
       THEN Exit(1, IF wfcReason = "timeout" THEN "Timeout" ELSE "ChecksFailed")
       ELSE Goto("main_596")
    /\ checks' = NoChecks
    /\ fetched' = NoFetched
    /\ prData' = "none"
    /\ elapsed' = 0
    /\ cycleCalls' = 0
    /\ pendingOnly' = TRUE
    /\ conflictOnly' = (conflictOnly /\ checksPass = "false")
    /\ UNCHANGED <<world, currentBranch, gopVars, checksPass, polls, wfcReason,
                   mergeVars, acrVars, calls, crVars, versionVars, harness, panel, aside, happy>>

\* ---------------------------------------------- main: the conflict check
\* The test taking every PR not known to be mergeable for a conflicting one.
hasConflicts_NotMergeable(m, st) == m # "MERGEABLE" \/ st = "DIRTY"

\* The test of main on the parsed PR view.
hasConflicts(m, st) == m = "CONFLICTING" \/ st = "DIRTY"

\* gh pr view --json mergeable,mergeStateStatus: null or unparsable (the
\* merge is attempted), or the two fields.
MainViewMergeable ==
    /\ pc = "main_596"
    /\ \/ /\ Goto("main_657")
          /\ happy' = FALSE
          /\ UNCHANGED viewed
       \/ /\ prs[prNumber] # "NONE"
          /\ \E m \in Mergeables, st \in MergeStates :
              /\ viewed' = [mergeable |-> m, mergeStateStatus |-> st]
              /\ IF hasConflicts(m, st) THEN Goto("acr_507") ELSE Goto("main_657")
              /\ happy' = (happy /\ m = "MERGEABLE" /\ st = "CLEAN")
    /\ UNCHANGED <<world, currentBranch, gopVars, wfcVars, mergeVars, acr, reviewed, calls,
                   crVars, versionVars, harness, panel, aside>>

\* attemptConflictResolution: git fetch origin; a throw is caught and the
\* function returns false, on which main exits.
AcrFetch ==
    /\ pc = "acr_507"
    /\ calls' = Count("fetch")
    /\ \E ok \in BOOLEAN :
        /\ acr' = [acr EXCEPT !.fetch = IF ok THEN "ok" ELSE "failed"]
        /\ IF ok THEN Goto("acr_511") ELSE Exit(1, "ConflictUnresolved")
    /\ happy' = FALSE
    /\ UNCHANGED <<world, currentBranch, gopVars, wfcVars, mergeVars, viewed, reviewed, crVars, versionVars, harness, panel, aside>>

\* git rebase origin/main, with allowFailure.
AcrRebase ==
    /\ pc = "acr_511"
    /\ \E ok \in BOOLEAN :
        /\ acr' = [acr EXCEPT !.rebase = IF ok THEN "ok" ELSE "failed"]
        /\ IF ok THEN Goto("acr_527") ELSE Goto("acr_517")
    /\ UNCHANGED <<world, currentBranch, gopVars, wfcVars, mergeVars, viewed, reviewed, calls, crVars, versionVars,
                   harness, panel, aside, happy>>

\* The merge whose failure is not looked at: the push follows all the same.
AcrMerge_PushesAnyway ==
    /\ pc = "acr_517"
    /\ \E ok \in BOOLEAN :
        /\ acr' = [acr EXCEPT !.merge = IF ok THEN "ok" ELSE "failed"]
        /\ Goto("acr_527")
    /\ UNCHANGED <<world, currentBranch, gopVars, wfcVars, mergeVars, viewed, reviewed, calls, crVars, versionVars,
                   harness, panel, aside, happy>>

\* git merge origin/main, with allowFailure.
AcrMerge ==
    /\ pc = "acr_517"
    /\ \E ok \in BOOLEAN :
        /\ acr' = [acr EXCEPT !.merge = IF ok THEN "ok" ELSE "failed"]
        /\ IF ok THEN Goto("acr_527") ELSE Exit(1, "ConflictUnresolved")
    /\ UNCHANGED <<world, currentBranch, gopVars, wfcVars, mergeVars, viewed, reviewed, calls, crVars, versionVars,
                   harness, panel, aside, happy>>

\* git push --force-with-lease.
AcrPush ==
    /\ pc = "acr_527"
    /\ calls' = Count("forcePush")
    /\ \E ok \in BOOLEAN :
        /\ acr' = [acr EXCEPT !.push = IF ok THEN "ok" ELSE "failed"]
        /\ IF ok THEN Goto("main_616") ELSE Exit(1, "ConflictUnresolved")
    /\ UNCHANGED <<world, currentBranch, gopVars, wfcVars, mergeVars, viewed, reviewed, crVars, versionVars, harness, panel, aside,
                   happy>>

\* The re-check sending the run back to waitForChecks for the rebased
\* branch.
MainRecheckMergeable_WaitsAgain ==
    /\ pc = "main_616"
    /\ \/ /\ Goto("wfc_174")
          /\ reviewed' = "unread"
       \/ /\ prs[prNumber] # "NONE"
          /\ \E m \in Mergeables :
              /\ reviewed' = m
              /\ IF m = "MERGEABLE" THEN Goto("wfc_174") ELSE Exit(1, "ConflictUnresolved")
    /\ UNCHANGED <<world, currentBranch, gopVars, wfcVars, mergeVars, viewed, acr, calls, crVars, versionVars,
                   harness, panel, aside, happy>>

\* sleep(10000), then gh pr view again: null or unparsable (the merge is
\* attempted), or the mergeable field.
MainRecheckMergeable ==
    /\ pc = "main_616"
    /\ \/ /\ Goto("main_657")
          /\ reviewed' = "unread"
       \/ /\ prs[prNumber] # "NONE"
          /\ \E m \in Mergeables :
              /\ reviewed' = m
              /\ IF m = "MERGEABLE" THEN Goto("main_657") ELSE Exit(1, "ConflictUnresolved")
    /\ UNCHANGED <<world, currentBranch, gopVars, wfcVars, mergeVars, viewed, acr, calls, crVars, versionVars,
                   harness, panel, aside, happy>>

\* ------------------------------------------------------- main: the merge
\* gh pr merge --squash --delete-branch.  It succeeds on an open PR (or
\* one merged already); or it throws, and the PR may have been merged all
\* the same.
MainMerge ==
    /\ pc = "main_657"
    /\ calls' = Count("merge")
    /\ viewed' = NoView
    /\ acr' = NoAcr
    /\ reviewed' = "none"
    /\ \/ /\ prs[prNumber] \in {"OPEN", "MERGED"}
          /\ prs' = [prs EXCEPT ![prNumber] = "MERGED"]
          /\ mergeCmd' = "ok"
          /\ mergeSuccessful' = TRUE
          /\ Goto("main_687")
          /\ UNCHANGED happy
       \/ /\ \/ UNCHANGED prs
             \/ /\ prs[prNumber] = "OPEN"
                /\ prs' = [prs EXCEPT ![prNumber] = "MERGED"]
          /\ mergeCmd' = "failed"
          /\ Goto("main_669")
          /\ happy' = FALSE
          /\ UNCHANGED mergeSuccessful
    /\ UNCHANGED <<wbranch, tagExists, tempFile, currentBranch, gopVars, wfcVars, recheck,
                   crVars, versionVars, harness, panel, aside>>

\* The catch without its re-check: a failed merge command is final.
confirmsMerge_Never(r) == FALSE

\* The catch taking a state it could not read for MERGED.
confirmsMerge_Lenient(r) == r \in {"MERGED", "fail", "garbage"}

\* The test of the catch on what the re-fetch returned: r is "fail" (null),
\* "garbage" (unparsable) or the state read.
confirmsMerge(r) == r = "MERGED"

\* The catch looking the PR up again in the list of the open PRs before
\* its re-check.
MainMergeRecheck_LooksUpAgain ==
    /\ pc = "main_669"
    /\ prNumber' = findExistingPR([kind |-> "ok", val |-> OpenList(prs)])
    /\ \E r \in {"fail", "garbage"} \cup (IF prs[prNumber] = "NONE" THEN {} ELSE {prs[prNumber]}) :
        /\ recheck' = r
        /\ mergeSuccessful' = confirmsMerge(r)
    /\ Goto("main_687")
    /\ UNCHANGED <<world, currentBranch, firstList, createRes, response, lastList, wfcVars, mergeCmd, acrVars,
                   calls, crVars, versionVars, harness, panel, aside, happy>>

\* The catch of the merge: gh pr view --json state; only MERGED makes
\* the merge successful.
MainMergeRecheck ==
    /\ pc = "main_669"
    /\ \E r \in {"fail", "garbage"} \cup (IF prs[prNumber] = "NONE" THEN {} ELSE {prs[prNumber]}) :
        /\ recheck' = r
        /\ mergeSuccessful' = confirmsMerge(r)
    /\ Goto("main_687")
    /\ UNCHANGED <<world, currentBranch, gopVars, wfcVars, mergeCmd, acrVars, calls, crVars, versionVars,
                   harness, panel, aside, happy>>

\* main without the exit on a failed merge.
MainMergeResult_NoExit ==
    /\ pc = "main_687"
    /\ Goto("cr_325")
    /\ UNCHANGED <<world, currentBranch, gopVars, wfcVars, mergeVars, acrVars, calls, crVars, versionVars,
                   harness, panel, aside, happy>>

\* main leaving with a code of its own on a failed merge.
MainMergeResult_OwnCode ==
    /\ pc = "main_687"
    /\ IF mergeSuccessful THEN Goto("cr_325") ELSE Exit(2, "MergeFailed")
    /\ UNCHANGED <<world, currentBranch, gopVars, wfcVars, mergeVars, acrVars, calls, crVars, versionVars,
                   harness, panel, aside, happy>>

\* if (!mergeSuccessful) process.exit(1); else createRelease(version).
MainMergeResult ==
    /\ pc = "main_687"
    /\ IF mergeSuccessful THEN Goto("cr_325") ELSE Exit(1, "MergeFailed")
    /\ UNCHANGED <<world, currentBranch, gopVars, wfcVars, mergeVars, acrVars, calls, crVars, versionVars,
                   harness, panel, aside, happy>>

\* ------------------------------------------------------------ createRelease
\* createRelease going on to the pull after a checkout that failed.
CrCheckout_GoesOn ==
    /\ pc = "cr_325"
    /\ calls' = Count("checkout")
    /\ \E ok \in BOOLEAN :
        /\ Goto("cr_326")
        /\ IF ok THEN wbranch' = BASE_BRANCH ELSE UNCHANGED wbranch
        /\ happy' = (happy /\ ok)
    /\ UNCHANGED <<prs, tagExists, tempFile, currentBranch, gopVars, wfcVars, mergeVars, acrVars,
                   crVars, versionVars, harness, panel, aside>>

\* git checkout main.
CrCheckout ==
    /\ pc = "cr_325"
    /\ calls' = Count("checkout")
    /\ \E ok \in BOOLEAN :
        /\ IF ok
           THEN Goto("cr_326") /\ wbranch' = BASE_BRANCH
           ELSE Exit(1, "Unexpected") /\ UNCHANGED wbranch
        /\ happy' = (happy /\ ok)
    /\ UNCHANGED <<prs, tagExists, tempFile, currentBranch, gopVars, wfcVars, mergeVars, acrVars,
                   crVars, versionVars, harness, panel, aside>>

\* git pull origin main, then generateReleaseNotes, which reads the version
\* from the manifest again.  The checkout and the pull leave the manifest
\* of main in the working copy: it holds the version the run started with
\* or another one (the manifest between the two commands is never read).
CrPull ==
    /\ pc = "cr_326"
    /\ \E ok \in BOOLEAN :
        /\ IF ok
           THEN /\ Goto("cr_334")
                /\ manifest' \in Versions
                /\ notesVersion' = manifest'
           ELSE /\ Exit(1, "Unexpected")
                /\ UNCHANGED <<manifest, notesVersion>>
        /\ happy' = (happy /\ ok)
    /\ UNCHANGED <<prs, wbranch, tagExists, tempFile, currentBranch, gopVars, wfcVars, mergeVars,
                   acrVars, calls, crVars, version, harness, panel, aside>>

\* What git tag -l returns: null when it fails, else the tag or nothing.
TagResults(t) == {"null", IF t THEN "tag" ELSE ""}

\* The tag test never taken: the release is created over an existing tag.
tagFound_Never(r) == FALSE

\* if (existingTag): null and the empty output are falsy.
tagFound(r) == r = "tag"

\* git tag -l v<version>: with a tag found the release is skipped and the
\* run is complete.
CrTagLookup ==
    /\ pc = "cr_334"
    /\ \E r \in TagResults(tagExists) :
        /\ existingTag' = r
        /\ IF tagFound(r) THEN Exit(0, "Done") ELSE Goto("cr_349")
        /\ happy' = (happy /\ r = "")
    /\ UNCHANGED <<world, currentBranch, gopVars, wfcVars, mergeVars, acrVars, calls,
                   fileRelease, inlineRelease, versionVars, harness, panel, aside>>

\* mkdirSync and writeFileSync of the notes file; a throw goes to the catch.
CrWriteNotes ==
    /\ pc = "cr_349"
    /\ \E ok \in BOOLEAN :
        /\ IF ok
           THEN Goto("cr_352") /\ tempFile' = TRUE
           ELSE Goto("cr_363") /\ UNCHANGED tempFile
        /\ happy' = (happy /\ ok)
    /\ UNCHANGED <<prs, wbranch, tagExists, currentBranch, gopVars, wfcVars, mergeVars, acrVars, calls,
                   crVars, versionVars, harness, panel, aside>>

\* The file-based create whose failure ends the run: no inline create.
CrCreateFromFile_NoFallback ==
    /\ pc = "cr_352"
    /\ calls' = Count("release")
    /\ \E ok \in BOOLEAN :
        /\ fileRelease' = IF ok THEN "ok" ELSE "failed"
        /\ IF ok
           THEN Goto("cr_355") /\ tagExists' = TRUE
           ELSE Exit(1, "Unexpected") /\ UNCHANGED tagExists
        /\ happy' = (happy /\ ok)
    /\ UNCHANGED <<prs, wbranch, tempFile, currentBranch, gopVars, wfcVars, mergeVars, acrVars,
                   existingTag, inlineRelease, versionVars, harness, panel, aside>>

\* gh release create --notes-file; a throw goes to the catch.
CrCreateFromFile ==
    /\ pc = "cr_352"
    /\ calls' = Count("release")
    /\ \E ok \in BOOLEAN :
        /\ fileRelease' = IF ok THEN "ok" ELSE "failed"
        /\ IF ok
           THEN Goto("cr_355") /\ tagExists' = TRUE
           ELSE Goto("cr_363") /\ UNCHANGED tagExists
        /\ happy' = (happy /\ ok)
    /\ UNCHANGED <<prs, wbranch, tempFile, currentBranch, gopVars, wfcVars, mergeVars, acrVars,
                   existingTag, inlineRelease, versionVars, harness, panel, aside>>

\* The unlink falling through to the fallback of the catch.
CrUnlink_FallsThrough ==
    /\ pc = "cr_355"
    /\ \E ok \in BOOLEAN :
        /\ Goto("cr_363")
        /\ tempFile' = ~ok
        /\ happy' = (happy /\ ok)
    /\ UNCHANGED <<prs, wbranch, tagExists, currentBranch, gopVars, wfcVars, mergeVars, acrVars, calls,
                   crVars, versionVars, harness, panel, aside>>

\* fs.unlinkSync of the notes file; a throw goes to the catch.
CrUnlink ==
    /\ pc = "cr_355"
    /\ \E ok \in BOOLEAN :
        /\ IF ok
           THEN Exit(0, "Done") /\ tempFile' = FALSE
           ELSE Goto("cr_363") /\ UNCHANGED tempFile
        /\ happy' = (happy /\ ok)
    /\ UNCHANGED <<prs, wbranch, tagExists, currentBranch, gopVars, wfcVars, mergeVars, acrVars, calls,
                   crVars, versionVars, harness, panel, aside>>

\* The catch: gh release create --notes "<escaped>"; a throw ends main.
CrCreateInline ==
    /\ pc = "cr_363"
    /\ calls' = Count("release")
    /\ \E ok \in BOOLEAN :
        /\ inlineRelease' = IF ok THEN "ok" ELSE "failed"
        /\ IF ok
           THEN Exit(0, "Done") /\ tagExists' = TRUE
           ELSE Exit(1, "Unexpected") /\ UNCHANGED tagExists
    /\ UNCHANGED <<prs, wbranch, tempFile, currentBranch, gopVars, wfcVars, mergeVars, acrVars,
                   existingTag, fileRelease, versionVars, harness, panel, aside, happy>>

\* ------------------------------------------------- the other actors
\* Someone merges or closes an open PR, or opens one, while the run goes
\* on.  Once getOrCreatePR has returned the run reads its own PR only, and
\* only the changes of that PR are followed.  Someone pushes the tag of the
\* version: the run looks for the tag in createRelease's git tag -l only,
\* so that a tag pushed at any moment before is one pushed right before
\* that lookup.
OtherActor ==
    /\ pc # "exit"
    /\ \/ /\ \E n \in PRIds, st \in {"MERGED", "CLOSED"} :
               /\ prs[n] = "OPEN"
               /\ prNumber \in {0, n}
               /\ prs' = [prs EXCEPT ![n] = st]
          /\ UNCHANGED tagExists
       \/ /\ NextId(prs) # 0
          /\ prNumber = 0
          /\ prs' = [prs EXCEPT ![NextId(prs)] = "OPEN"]
          /\ UNCHANGED tagExists
       \/ /\ pc = "cr_334"
          /\ ~tagExists
          /\ tagExists' = TRUE
          /\ UNCHANGED prs
    /\ happy' = FALSE
    /\ UNCHANGED <<wbranch, tempFile, pc, exitCode, outcome, currentBranch, gopVars,
                   wfcVars, mergeVars, acrVars, calls, crVars, versionVars, harness, panel, aside>>

\* ------------------------------------------------------ the specification
Resolve ==
    \/ GopFind
    \/ GopCreate
    \/ GopFindAfterFailure
    \/ ExtractFallback
    \/ GopFindAfterExtract

\* The steps of the run itself.
Run ==
    \/ CheckGh
    \/ CheckAuth
    \/ CheckDirty
    \/ ReadContext
    \/ Push
    \/ Resolve
    \/ MainGotPR
    \/ WfcStart
    \/ WfcLoop
    \/ WfcView
    \/ WfcChecks
    \/ WfcAltChecks
    \/ WfcSleepStep
    \/ MainChecked
    \/ MainViewMergeable
    \/ AcrFetch
    \/ AcrRebase
    \/ AcrMerge
    \/ AcrPush
    \/ MainRecheckMergeable
    \/ MainMerge
    \/ MainMergeRecheck
    \/ MainMergeResult
    \/ CrCheckout
    \/ CrPull
    \/ CrTagLookup
    \/ CrWriteNotes
    \/ CrCreateFromFile
    \/ CrUnlink
    \/ CrCreateInline

Next ==
    \/ Run
    \/ OtherActor

Spec == Init /\ [][Next]_vars

\* The run under the premise that every external command returns: execSync
\* blocks the one thread until its command ends and each await of main is
\* a timer, so the run takes its next step whenever it has one.  Nothing
\* is assumed of the other actors.
SpecLive == Spec /\ WF_vars(Run)

\* ------------------------------------------------------------- the re-run
\* The script is invoked again after a run that confirmed the merge of
\* its PR, on main or with the branch checked out again: main() starts
\* anew on the hosting service, the tags and the files the run left.
Rerun ==
    /\ pc = "exit"
    /\ earlier = NoEarlier
    /\ mergeSuccessful
    /\ earlier' = [merged |-> mergeSuccessful, tag |-> tagExists, pr |-> prNumber]
    /\ wbranch' \in Branches
    /\ pc' = "main_545"
    /\ exitCode' = -1
    /\ outcome' = "none"
    /\ currentBranch' = "none"
    /\ prNumber' = 0
    /\ elapsed' = 0
    /\ prData' = "none"
    /\ checksPass' = "none"
    /\ mergeSuccessful' = FALSE
    /\ calls' = [k \in Kinds |-> 0]
    /\ polls' = 0
    /\ cycleCalls' = 0
    /\ checks' = NoChecks
    /\ wfcReason' = "none"
    /\ fetched' = NoFetched
    /\ mergeCmd' = "none"
    /\ recheck' = "none"
    /\ existingTag' = "none"
    /\ firstList' = NoList
    /\ createRes' = "none"
    /\ response' = NoResponse
    /\ lastList' = NoList
    /\ viewed' = NoView
    /\ acr' = NoAcr
    /\ reviewed' = "none"
    /\ version' = "none"
    /\ notesVersion' = "none"
    /\ fileRelease' = "none"
    /\ inlineRelease' = "none"
    /\ pendingOnly' = TRUE
    /\ conflictOnly' = FALSE
    /\ happy' = TRUE
    /\ UNCHANGED <<prs, tagExists, tempFile, manifest, harness, panel, changelog, notes>>

NextRerun ==
    \/ Next
    \/ Rerun

SpecRerun == Init /\ [][NextRerun]_vars

\* ------------------------------------------------ the resolver harness, panel
\* getOrCreatePR called again on the hosting service as the call before and
\* the other actors left it: what a caller resolving the PR twice does.
CallAgain ==
    /\ pc = "gop_ret"
    /\ nCalls + 1 < MaxCalls
    /\ nCalls' = nCalls + 1
    /\ prev' = [list |-> firstList, pr |-> prNumber, creates |-> calls["create"]]
    /\ calls' = [calls EXCEPT !["create"] = 0]
    /\ prNumber' = 0
    /\ firstList' = NoList
    /\ createRes' = "none"
    /\ response' = NoResponse
    /\ lastList' = NoList
    /\ Goto("gop_437")
    /\ UNCHANGED <<world, currentBranch, wfcVars, mergeVars, acrVars, crVars, versionVars, aside,
                   panel, happy>>

InitResolve ==
    /\ InitWorld
    /\ InitRun
    /\ InitAside
    /\ NoPanel
    /\ wbranch = "feature/x"
    /\ ~tagExists
    /\ pc = "gop_437"

NextResolve ==
    \/ Resolve
    \/ CallAgain
    \/ OtherActor

SpecResolve == InitResolve /\ [][NextResolve]_vars

\* ------------------------------------------------- generateReleaseNotes
\* A line of CHANGELOG.md, by what the tests of generateReleaseNotes find
\* in it: a blank line, a line of text, a line of text that mentions
\* "[Unreleased]" or "[<version>]", the headings "## [Unreleased]" and
\* "## [<version>]", the heading of another version, and a heading such
\* as "## [<version>-beta]" that holds the version without naming it.
LineKinds ==
    {"blank", "text", "textUnreleased", "textVersion", "headUnreleased", "headVersion",
     "headOther", "headSimilar"}

\* line.includes('[Unreleased]') || line.includes(`[${version}]`)
includesMarker(l) == l \in {"textUnreleased", "headUnreleased", "textVersion", "headVersion"}

\* line.startsWith('## [')
startsWithHeading(l) == l \in {"headUnreleased", "headVersion", "headOther", "headSimilar"}

\* line.includes(version)
includesVersion(l) == l \in {"textVersion", "headVersion", "headSimilar"}

\* line.trim() is not empty
notBlank(l) == l # "blank"

\* The loop over the lines from line i on: inCurrentVersion is inCur and
\* acc holds the numbers of the lines pushed so far.
RECURSIVE scanLines(_, _, _, _)
scanLines(lines, i, inCur, acc) ==
    IF i > Len(lines) THEN acc
    ELSE IF includesMarker(lines[i]) THEN scanLines(lines, i + 1, TRUE, acc)
    ELSE IF inCur /\ startsWithHeading(lines[i]) /\ ~includesVersion(lines[i]) THEN acc
    ELSE IF inCur /\ notBlank(lines[i]) THEN scanLines(lines, i + 1, inCur, Append(acc, i))
    ELSE scanLines(lines, i + 1, inCur, acc)

\* generateReleaseNotes: the bare title without a changelog, the title
\* with the pointer to CHANGELOG.md when no line was pushed, else the title
\* and the lines pushed (by their numbers).
generateReleaseNotes(cl) ==
    IF ~cl.exists THEN [kind |-> "title", lines |-> <<>>]
    ELSE IF scanLines(cl.lines, 1, FALSE, <<>>) = <<>>
         THEN [kind |-> "seeChangelog", lines |-> <<>>]
    ELSE [kind |-> "section", lines |-> scanLines(cl.lines, 1, FALSE, <<>>)]

\* The changelogs of up to MaxLines lines, and no changelog.
Changelogs ==
    {NoChangelog} \cup
    {[exists |-> TRUE, lines |-> l] : l \in UNION {[1..k -> LineKinds] : k \in 0..MaxLines}}

\* generateReleaseNotes is called on the changelog.
GenerateNotes ==
    /\ pc = "grn_130"
    /\ notes' = generateReleaseNotes(changelog)
    /\ Goto("grn_ret")
    /\ UNCHANGED <<world, currentBranch, gopVars, wfcVars, mergeVars, acrVars, calls, crVars, versionVars,
                   harness, panel, earlier, changelog, happy>>

InitNotes ==
    /\ prs = [n \in PRIds |-> "NONE"]
    /\ wbranch = BASE_BRANCH
    /\ tagExists = FALSE
    /\ tempFile = FALSE
    /\ manifest = "1.1.0"
    /\ InitRun
    /\ earlier = NoEarlier
    /\ changelog \in Changelogs
    /\ notes = NoNotes
    /\ NoPanel
    /\ pc = "grn_130"

SpecNotes == InitNotes /\ [][GenerateNotes]_vars

\* ------------------------------------------------------ the release panel
\* The calls the script of the page may nest before the engine throws
\* RangeError (maximum call stack size exceeded).
MaxStack == 4

\* The messages a queue between the page and the host holds at most.
MaxInFlight == 2

PanelBranches == {"main", "feature/x", "unknown"}

\* What the host finds: a workspace folder or none, and through the git
\* extension the branch ('unknown' without a repository) and whether the
\* working tree or the index has changes (false without a repository).
Editors ==
    {e \in [workspace : BOOLEAN, branch : PanelBranches, dirty : BOOLEAN] :
        ~e.workspace => (e.branch = "unknown" /\ ~e.dirty)}

\* The variables of the script, which the panel leaves alone.
script == <<world, pc, exitCode, outcome, currentBranch, gopVars, wfcVars, mergeVars, acrVars,
            calls, crVars, versionVars, harness, aside, happy>>

\* _handleGetStatus: the status object, by the fields the page tests.
statusOf(e) == [branch |-> e.branch, dirty |-> e.dirty]

\* updateStatus: canCreateRelease.
canCreateRelease(st) == ~st.dirty /\ st.branch # "main"

\* The script of the page calls f with argument a from the page p its
\* caller left: one more frame, or RangeError, which ends the handler.
Call(p, f, a) ==
    IF p.depth < MaxStack
    THEN [p EXCEPT !.fn = f, !.arg = a, !.depth = @ + 1]
    ELSE [p EXCEPT !.fn = "idle", !.arg = NoStatus, !.depth = 0, !.error = TRUE]

\* The script of the page runs: the listeners are added, refreshStatus().
PageLoad ==
    /\ host.open
    /\ page.fn = "load"
    /\ toHost' = Append(toHost, "getStatus")
    /\ page' = [page EXCEPT !.fn = "idle"]
    /\ UNCHANGED <<script, editor, toPage, host>>

\* A click on Refresh Status: refreshStatus().
ClickRefresh ==
    /\ host.open
    /\ page.fn = "idle"
    /\ ~page.refreshDisabled
    /\ Len(toHost) < MaxInFlight
    /\ toHost' = Append(toHost, "getStatus")
    /\ page' = [page EXCEPT !.last = "refresh", !.error = FALSE]
    /\ UNCHANGED <<script, editor, toPage, host>>

\* A click on Create Release: setLoading(true), then the message.
ClickCreate ==
    /\ host.open
    /\ page.fn = "idle"
    /\ ~page.createDisabled
    /\ Len(toHost) < MaxInFlight
    /\ toHost' = Append(toHost, "createRelease")
    /\ page' = [page EXCEPT !.loading = TRUE, !.refreshDisabled = TRUE, !.createDisabled = TRUE,
                            !.last = "create", !.error = FALSE]
    /\ host' = [host EXCEPT !.result = "none"]
    /\ UNCHANGED <<script, editor, toPage>>

\* The message listener of the page: statusUpdate calls updateStatus.
PageReceive ==
    /\ host.open
    /\ page.fn = "idle"
    /\ toPage # <<>>
    /\ toPage' = Tail(toPage)
    /\ page' = Call([page EXCEPT !.last = "statusUpdate", !.error = FALSE],
                    "updateStatus", Head(toPage))
    /\ UNCHANGED <<script, editor, toHost, host>>

\* updateStatus(status): currentStatus, the texts, the warning, the Create
\* Release button, then setLoading(false).
UpdateStatus ==
    /\ page.fn = "updateStatus"
    /\ page' = Call([page EXCEPT !.currentStatus = page.arg,
                                 !.warning = ~canCreateRelease(page.arg),
                                 !.createDisabled = ~canCreateRelease(page.arg)],
                    "setLoading", NoStatus)
    /\ UNCHANGED <<script, editor, toHost, toPage, host>>

\* setLoading(false): the loading element hidden, Refresh enabled, and
\* updateStatus(currentStatus) if there is a status; else it returns, and
\* so do its callers.
SetLoading ==
    /\ page.fn = "setLoading"
    /\ LET p == [page EXCEPT !.loading = FALSE, !.refreshDisabled = FALSE]
       IN page' = IF p.currentStatus # NoStatus
                  THEN Call(p, "updateStatus", p.currentStatus)
                  ELSE [p EXCEPT !.fn = "idle", !.arg = NoStatus, !.depth = 0]
    /\ UNCHANGED <<script, editor, toHost, toPage, host>>

\* onDidReceiveMessage: getStatus posts the status; createRelease runs
\* _handleCreateRelease up to its return or to the confirmation dialog.
HostReceive ==
    /\ host.open
    /\ toHost # <<>>
    /\ toHost' = Tail(toHost)
    /\ IF Head(toHost) = "getStatus"
       THEN /\ Len(toPage) < MaxInFlight
            /\ toPage' = Append(toPage, statusOf(editor))
            /\ UNCHANGED host
       ELSE /\ ~host.dialog
            /\ host' = IF ~editor.workspace THEN [host EXCEPT !.result = "noWorkspace"]
                       ELSE IF editor.dirty THEN [host EXCEPT !.result = "dirty"]
                       ELSE IF editor.branch = "main" THEN [host EXCEPT !.result = "onMain"]
                       ELSE [host EXCEPT !.dialog = TRUE]
            /\ UNCHANGED toPage
    /\ UNCHANGED <<script, editor, page>>

\* The answer to the dialog: anything but 'Yes, Create Release' returns;
\* else the terminal is started and the panel disposed.
HostConfirm ==
    /\ host.dialog
    /\ \/ /\ host' = [host EXCEPT !.dialog = FALSE, !.result = "declined"]
          /\ UNCHANGED <<toHost, toPage, page>>
       \/ /\ host' = [open |-> FALSE, dialog |-> FALSE, result |-> "started"]
          /\ toHost' = <<>>
          /\ toPage' = <<>>
          /\ page' = ClosedPage
    /\ UNCHANGED <<script, editor>>

\* The user commits, edits, switches the branch or closes the folder,
\* between two handlers of the page (a handler runs to its end) and not
\* under the modal dialog.
EditorChange ==
    /\ host.open
    /\ ~host.dialog
    /\ page.fn = "idle"
    /\ editor' \in Editors \ {editor}
    /\ UNCHANGED <<script, toHost, toPage, page, host>>

\* The panel after createOrShow: the HTML set, no message sent yet.
InitPanel ==
    /\ prs = [n \in PRIds |-> "NONE"]
    /\ wbranch = "feature/x"
    /\ tagExists = FALSE
    /\ tempFile = FALSE
    /\ manifest = "1.1.0"
    /\ InitRun
    /\ InitAside
    /\ pc = "main_545"
    /\ editor \in Editors
    /\ toHost = <<>>
    /\ toPage = <<>>
    /\ page = FreshPage
    /\ host = [open |-> TRUE, dialog |-> FALSE, result |-> "none"]

NextPanel ==
    \/ PageLoad
    \/ ClickRefresh
    \/ ClickCreate
    \/ PageReceive
    \/ UpdateStatus
    \/ SetLoading
    \/ HostReceive
    \/ HostConfirm
    \/ EditorChange

SpecPanel == InitPanel /\ [][NextPanel]_vars

\* ------------------------------------------------------------- the claims
FailBuckets == {"fail", "cancel"}

ReleasePcs == {"cr_325", "cr_326", "cr_334", "cr_349", "cr_352", "cr_355", "cr_363"}

\* The merge of the PR was confirmed in this run: the merge command
\* succeeded, or the re-fetch after its failure showed MERGED.
MergeConfirmed == mergeCmd = "ok" \/ (mergeCmd = "failed" /\ recheck = "MERGED")

\* createRelease has been entered.
ReleaseEntered == pc \in ReleasePcs \/ calls["checkout"] > 0

\* C1: a poll cycle that fetched a check set with a fail or cancel bucket
\* made waitForChecks return false, whatever the other buckets are.
C1_FailedCheckFails ==
    (checks # NoChecks /\ checks \cap FailBuckets # {})
        => (pc = "main_588" /\ checksPass = "false")

C1_Witness ==
    /\ pc = "main_588"
    /\ checks = {"cancel", "pass", "skipping"}
    /\ checksPass = "false"

\* The reference rule of the aggregate outcome.
RefOutcome(c) ==
    IF c \cap FailBuckets # {} THEN "fail"
    ELSE IF "pending" \in c THEN "pending"
    ELSE "pass"

\* C2: for every non-empty check set over the five buckets, the cycle that
\* fetched it did what the reference rule says: fail returns false, pending
\* sleeps to poll again, pass returns true.
C2_AggregateRule ==
    (checks # NoChecks /\ checks # {} /\ checks \subseteq Buckets)
        => CASE RefOutcome(checks) = "fail" -> pc = "main_588" /\ checksPass = "false"
             [] RefOutcome(checks) = "pending" -> pc = "wfc_sleep" /\ checksPass = "none"
             [] OTHER -> pc = "main_588" /\ checksPass = "true"

C2_Witness ==
    /\ pc = "main_588"
    /\ checks = {"skipping"}
    /\ prData = "UNKNOWN"
    /\ checksPass = "true"

\* C3 as claimed: with checks pending in every cycle, waitForChecks returns
\* false no later than MAX_WAIT_TIME + CHECK_INTERVAL after it started.
C3_TimeoutWithinBudgetPlusInterval ==
    (pc = "main_588" /\ pendingOnly)
        => /\ checksPass = "false"
           /\ elapsed <= MAX_WAIT_TIME + CHECK_INTERVAL

\* C3, amended: with checks pending in every cycle, waitForChecks returns
\* false (it does not throw) at the first loop test that finds the budget
\* used up; its last cycle began within the budget, so that it returns
\* before MAX_WAIT_TIME + CHECK_INTERVAL plus the time the commands of that
\* last cycle took.
C3_TimeoutAfterLastCycle ==
    /\ (pc = "main_588" /\ pendingOnly)
        => /\ checksPass = "false"
           /\ wfcReason = "timeout"
           /\ elapsed >= MAX_WAIT_TIME
           /\ elapsed < MAX_WAIT_TIME + CHECK_INTERVAL + cycleCalls
    /\ (pc = "exit" /\ outcome = "Unexpected" /\ polls > 0 /\ calls["merge"] = 0)
        => ~pendingOnly

C3_Witness ==
    /\ pc = "main_588"
    /\ pendingOnly
    /\ wfcReason = "timeout"
    /\ elapsed > MAX_WAIT_TIME + CHECK_INTERVAL

\* C4: when the first list query of getOrCreatePR returns open PRs, the
\* call returns the first of them and issues no create request; a second
\* call that gets the same list returns the same number, and neither call
\* issued a create request.
C4_ExistingPRReused ==
    (pc = "gop_ret" /\ firstList.kind = "ok" /\ firstList.val # <<>>)
        => /\ prNumber = Head(firstList.val)
           /\ calls["create"] = 0
           /\ (prev.list = firstList => prNumber = prev.pr /\ prev.creates = 0)

C4_Witness ==
    /\ pc = "gop_ret"
    /\ nCalls = 1
    /\ firstList.kind = "ok"
    /\ Len(firstList.val) = 2
    /\ prev.list = firstList
    /\ prNumber = prev.pr

\* C5: a failed merge command is followed by a re-fetch of the PR state, and
\* when the re-fetch showed MERGED the merge counts as successful and the
\* run goes on to createRelease, not to Failed(MergeFailed).
C5_MergedDespiteError ==
    /\ (mergeCmd = "failed" /\ pc # "main_669") => recheck # "none"
    /\ (mergeCmd = "failed" /\ recheck = "MERGED")
        => /\ mergeSuccessful
           /\ outcome # "MergeFailed"
           /\ pc = "main_687" \/ ReleaseEntered

C5_Witness ==
    /\ mergeCmd = "failed"
    /\ recheck = "MERGED"
    /\ pc = "cr_326"

C7_PrereqFailureNoSideEffects ==
    /\ outcome = "PrerequisiteFailed"
        => /\ pc = "exit"
           /\ exitCode # 0
           /\ \A k \in {"push", "create", "merge", "release", "forcePush"} : calls[k] = 0
    /\ (currentBranch = BASE_BRANCH) => outcome = "PrerequisiteFailed"

C7_Witness ==
    /\ outcome = "PrerequisiteFailed"
    /\ currentBranch = BASE_BRANCH

\* C8: a release create request is issued only after the merge was
\* confirmed in the run, and once the merge is confirmed createRelease is
\* entered.
C8_ReleaseIffMergeConfirmed ==
    /\ calls["release"] > 0 => MergeConfirmed
    /\ ReleaseEntered => MergeConfirmed
    /\ (MergeConfirmed /\ pc # "main_687") => ReleaseEntered

C8_Witness ==
    /\ calls["release"] = 1
    /\ mergeCmd = "ok"
    /\ pc = "cr_355"

\* C9: when the tag lookup of createRelease finds the tag, no release
\* create request is issued and the run ends in Done with exit code 0.
C9_ExistingTagSkipsRelease ==
    existingTag = "tag"
        => /\ pc = "exit"
           /\ outcome = "Done"
           /\ exitCode = 0
           /\ calls["release"] = 0

C9_Witness ==
    /\ existingTag = "tag"
    /\ outcome = "Done"
    /\ mergeCmd = "ok"

\* C10: on feature/x with no PR open and no tag yet, every command
\* succeeding, the check list [pass] and a mergeable PR, the run issues one
\* PR create, one poll cycle, one merge and one release create, and ends in
\* Done with exit code 0.
C10_HappyPath ==
    (happy /\ pc = "exit")
        => /\ outcome = "Done"
           /\ exitCode = 0
           /\ currentBranch = "feature/x"
           /\ calls["create"] = 1
           /\ polls = 1
           /\ calls["merge"] = 1
           /\ calls["release"] = 1
           /\ tagExists
           /\ calls["forcePush"] = 0

C10_Witness ==
    /\ happy
    /\ pc = "exit"
    /\ calls["release"] = 1

\* The stage the orchestrator is in, by the command it is to issue next.
StageOf(l, o) ==
    CASE l \in {"main_545", "main_552", "main_559", "main_564"} -> "PrereqCheck"
      [] l = "main_579" -> "Push"
      [] l \in {"gop_437", "gop_459", "gop_466", "epn_391", "gop_485", "gop_ret"} -> "ResolvePR"
      [] l \in {"wfc_174", "wfc_180", "wfc_185", "wfc_218", "wfc_228", "wfc_sleep",
                "main_588", "main_596"} -> "AwaitChecks"
      [] l \in {"acr_507", "acr_511", "acr_517", "acr_527", "main_616"} -> "ResolveConflict"
      [] l \in {"main_657", "main_669", "main_687"} -> "Merge"
      [] l \in ReleasePcs -> "Release"
      [] OTHER -> IF o = "Done" THEN "Done" ELSE "Failed"

\* The stages that may follow a stage.
StageSuccessors(st) ==
    CASE st = "PrereqCheck" -> {"Push"}
      [] st = "Push" -> {"ResolvePR"}
      [] st = "ResolvePR" -> {"AwaitChecks"}
      [] st = "AwaitChecks" -> {"ResolveConflict", "Merge"}
      [] st = "ResolveConflict" -> {"Merge"}
      [] st = "Merge" -> {"Release"}
      [] st = "Release" -> {"Done"}
      [] OTHER -> {}

\* C11: every step of the run stays in its stage, enters the stage that
\* follows it in the order PrereqCheck, Push, ResolvePR, AwaitChecks,
\* ResolveConflict (which may be left out), Merge, Release, Done, or ends
\* the run in Failed; Done and Failed are left by no step.
C11_StageOrder ==
    [][LET from == StageOf(pc, outcome)
           to == StageOf(pc', outcome')
       IN \/ to = from
          \/ to \in StageSuccessors(from)
          \/ to = "Failed" /\ from # "Done"]_vars

C11_Witness ==
    /\ pc = "exit"
    /\ outcome = "Done"
    /\ calls["fetch"] = 1
    /\ calls["forcePush"] = 1
    /\ calls["release"] = 1

\* C12: with every external command returning, the run ends: it reaches
\* Done or a Failed state, whatever the PR and its checks do.
C12_RunTerminates == <>(pc = "exit")

C12_Witness ==
    /\ pc = "exit"
    /\ outcome = "Timeout"
    /\ polls = CountCap
    /\ exitCode = 1

\* C13: the process has an exit code once the run is over; the code is 0
\* exactly when the run ended in Done, that is with the merge confirmed and
\* the release created or skipped for its existing tag, and it is not 0 in
\* every Failed state, the one of a thrown command included.
C13_ExitZeroIffDone ==
    /\ pc = "exit" <=> exitCode # -1
    /\ pc = "exit" => (exitCode = 0 <=> outcome = "Done")
    /\ outcome = "Done"
        => /\ MergeConfirmed
           /\ tagExists
           /\ existingTag = "tag" \/ calls["release"] > 0
    /\ outcome = "Unexpected" => exitCode # 0

C13_Witness ==
    /\ pc = "exit"
    /\ outcome = "Unexpected"
    /\ exitCode = 1
    /\ calls["release"] = CountCap

\* The terminal outcomes of the workflow.
WorkflowOutcomes ==
    {"Done", "ChecksFailed", "Timeout", "ConflictUnresolved", "MergeFailed",
     "PrerequisiteFailed"}

\* The exit code of each terminal outcome.
ExitCodeOf(o) == IF o = "Done" THEN 0 ELSE 1

\* C14 as claimed: the exit code a run ends with belongs to its outcome
\* alone, no other terminal outcome ends the process with it.
C14_DistinctExitCodes ==
    (pc = "exit" /\ outcome \in WorkflowOutcomes)
        => \A o \in WorkflowOutcomes \ {outcome} : ExitCodeOf(o) # exitCode

\* C14, amended: the outcome fixes the exit code, 0 for Done and 1 for
\* every failure; the failures share their exit code.
C14_FailuresShareExitCode ==
    pc = "exit"
        => /\ exitCode = ExitCodeOf(outcome)
           /\ outcome \in WorkflowOutcomes \cup {"PRResolutionFailed", "Unexpected"}
           /\ outcome # "Done" => exitCode = 1

C14_Witness ==
    /\ pc = "exit"
    /\ outcome = "ConflictUnresolved"
    /\ exitCode = 1
    /\ acr.push = "failed"

\* C15: the step of a poll cycle that fetches and parses the PR detail
\* returns true from waitForChecks when the PR is MERGED and false when it
\* is CLOSED, in that very step: no check list is fetched and no sleep is
\* taken; only an open PR goes on to the check list.
C15_MergedOrClosedEndsThePoll ==
    [][(pc = "wfc_185" /\ prData' \in Mergeables)
          => /\ prs[prNumber] = "MERGED" => (pc' = "main_588" /\ checksPass' = "true")
             /\ prs[prNumber] = "CLOSED" => (pc' = "main_588" /\ checksPass' = "false")
             /\ prs[prNumber] = "OPEN" => (pc' = "wfc_218" /\ checksPass' = "none")
             /\ checks' = NoChecks
             /\ elapsed' <= elapsed + MaxCallTime]_vars

C15_Witness ==
    /\ pc = "main_588"
    /\ wfcReason = "closed"
    /\ checksPass = "false"
    /\ prs[prNumber] = "CLOSED"
    /\ polls = CountCap
    /\ checks = NoChecks

\* C16: a poll cycle on an open PR that fetched an empty check list
\* returned true when the PR is MERGEABLE; when it is CONFLICTING the
\* cycle returned nothing and sleeps, after which the loop test comes again.
C16_EmptyCheckList ==
    /\ checks = {}
        => /\ prData = "MERGEABLE"
                => (pc = "main_588" /\ checksPass = "true" /\ wfcReason = "passed")
           /\ prData = "CONFLICTING"
                => (pc = "wfc_sleep" /\ checksPass = "none" /\ outcome = "none")
    /\ pc = "wfc_sleep" => ENABLED WfcSleepStep

C16_Witness ==
    /\ checks = {}
    /\ prData = "CONFLICTING"
    /\ pc = "wfc_sleep"
    /\ prs[prNumber] = "OPEN"

\* A list query that found no PR: it failed, did not parse, or was empty.
FoundNone(r) == r.kind \in {"fail", "garbage"} \/ (r.kind = "ok" /\ r.val = <<>>)

\* C17: after a failed create request getOrCreatePR queries for the PR
\* again and returns the first PR of a list that has one; the run ends in
\* Failed(PRResolutionFailed), with a non-zero exit code, only when the
\* create request failed or its response gave no number and the list
\* query issued after that found no PR.
C17_CreateFailureRequeries ==
    /\ (createRes = "failed" /\ pc # "gop_466")
        => /\ lastList # NoList
           /\ IF FoundNone(lastList)
              THEN pc = "exit" /\ outcome = "PRResolutionFailed"
              ELSE pc = "gop_ret" /\ prNumber = Head(lastList.val)
    /\ outcome = "PRResolutionFailed"
        => /\ pc = "exit"
           /\ exitCode # 0
           /\ calls["create"] = 1
           /\ createRes \in {"failed", "nonumber"}
           /\ lastList # NoList
           /\ FoundNone(lastList)
    /\ pc = "gop_ret" => prNumber # 0

C17_Witness ==
    /\ pc = "gop_ret"
    /\ createRes = "failed"
    /\ lastList.kind = "ok"
    /\ prNumber = Head(lastList.val)
    /\ firstList.kind = "ok"
    /\ firstList.val = <<>>

AcrPcs == {"acr_507", "acr_511", "acr_517", "acr_527"}

\* C18: attemptConflictResolution fetches, then rebases, and merges only
\* after a failed rebase; with rebase and merge both failed it returns
\* false (on which main ends the run) and no force-push was issued; with
\* one of them done it issues one force-push, and it returns true only
\* with that push accepted.
C18_ResolutionSteps ==
    /\ acr.rebase # "none" => acr.fetch = "ok"
    /\ acr.merge # "none" => acr.rebase = "failed"
    /\ acr.push # "none" => (acr.rebase = "ok" \/ acr.merge = "ok")
    /\ (acr.rebase = "failed" /\ acr.merge = "failed")
        => /\ calls["forcePush"] = 0
           /\ pc = "exit"
           /\ outcome = "ConflictUnresolved"
    /\ ((acr.rebase = "ok" \/ acr.merge = "ok") /\ pc # "acr_527")
        => (acr.push # "none" /\ calls["forcePush"] = 1)
    /\ calls["forcePush"] <= 1
    /\ pc = "main_616" => acr.push = "ok"
    /\ acr.push = "failed" => (pc = "exit" /\ outcome = "ConflictUnresolved")
    /\ pc \in AcrPcs \ {"acr_507"} => acr.fetch = "ok"

C18_Witness ==
    /\ pc = "main_616"
    /\ acr.rebase = "failed"
    /\ acr.merge = "ok"
    /\ acr.push = "ok"
    /\ calls["forcePush"] = 1

\* attemptConflictResolution returned false: a command it needs failed.
ResolutionFailed ==
    \/ acr.fetch = "failed"
    \/ acr.rebase = "failed" /\ acr.merge = "failed"
    \/ acr.push = "failed"

\* C19: the conflict resolution is begun at most once in a run, after the
\* checks succeeded and on a PR view that reports CONFLICTING or DIRTY,
\* and on every such view; a failed attempt ends the run in
\* Failed(ConflictUnresolved) with no merge request issued.
C19_OneResolutionAttempt ==
    /\ calls["fetch"] <= 1
    /\ (pc \in AcrPcs \cup {"main_616"} \/ outcome = "ConflictUnresolved")
        => /\ checksPass = "true"
           /\ viewed.mergeable = "CONFLICTING" \/ viewed.mergeStateStatus = "DIRTY"
           /\ calls["merge"] = 0
    /\ pc = "main_657"
        => (calls["fetch"] = 1
              <=> (viewed.mergeable = "CONFLICTING" \/ viewed.mergeStateStatus = "DIRTY"))
    /\ ResolutionFailed
        => /\ pc = "exit"
           /\ outcome = "ConflictUnresolved"
           /\ exitCode # 0
           /\ calls["merge"] = 0

C19_Witness ==
    /\ outcome = "ConflictUnresolved"
    /\ viewed.mergeable = "MERGEABLE"
    /\ viewed.mergeStateStatus = "DIRTY"
    /\ acr.rebase = "failed"
    /\ acr.merge = "failed"
    /\ calls["merge"] = 0

\* C20: once the release create with the notes file succeeded the run
\* ends in Done with exit code 0, whether or not the notes file could be
\* removed, and it issues no further release create.
C20_LeftoverFileNotFailure ==
    (pc = "exit" /\ fileRelease = "ok")
        => /\ outcome = "Done"
           /\ exitCode = 0
           /\ calls["release"] = 1

\* C21: a run started again after a run that merged the PR and did not
\* publish the release, with every command of it succeeding, creates no
\* PR and merges nothing and ends in Done with the release published; a
\* run started again with the tag in place issues no release create.
C21_RerunResumes ==
    (earlier.merged /\ happy)
        => /\ calls["create"] = 0
           /\ calls["merge"] = 0
           /\ pc = "exit" => (outcome = "Done" /\ tagExists)
           /\ earlier.tag => calls["release"] = 0

\* The section of the changelog: it starts at the first heading that is
\* "## [Unreleased]" or "## [<version>]" (0: there is none) and ends
\* before the next heading that does not hold the version.
IsSectionHeading(l) == l \in {"headUnreleased", "headVersion"}

SectionStart(lines) ==
    IF \E i \in 1..Len(lines) : IsSectionHeading(lines[i])
    THEN CHOOSE i \in 1..Len(lines) :
            /\ IsSectionHeading(lines[i])
            /\ \A j \in 1..(i - 1) : ~IsSectionHeading(lines[j])
    ELSE 0

EndsSection(l) == startsWithHeading(l) /\ ~includesVersion(l) /\ ~IsSectionHeading(l)

InSection(lines, i) ==
    /\ SectionStart(lines) # 0
    /\ i > SectionStart(lines)
    /\ \A j \in (SectionStart(lines) + 1)..i : ~EndsSection(lines[j])

\* The numbers of the non-blank lines of the section, its headings left out.
SectionLines(lines) ==
    {i \in 1..Len(lines) : InSection(lines, i) /\ notBlank(lines[i]) /\ ~IsSectionHeading(lines[i])}

\* C22: the notes are the non-blank lines of the section of the current
\* version, every one of them and no line from outside it; without a
\* changelog, and without such lines, they are a default message.
C22_NotesAreTheSection ==
    pc = "grn_ret"
        => IF changelog.exists /\ SectionLines(changelog.lines) # {}
           THEN /\ notes.kind = "section"
                /\ {notes.lines[k] : k \in 1..Len(notes.lines)} = SectionLines(changelog.lines)
           ELSE notes.kind \in {"title", "seeChangelog"}

\* C23 (as stated): waitForChecks returns false only when the time ran out
\* or a fetched check set held a fail or cancel bucket.
C23_OnlyTimeoutOrFailBucket ==
    (pc = "main_588" /\ checksPass = "false") =>
        \/ wfcReason = "timeout" /\ elapsed >= MAX_WAIT_TIME
        \/ checks \cap FailBuckets # {}

\* C23 (amended): waitForChecks returns false for one of four reasons: the
\* time ran out, a fetched check set held a fail or cancel bucket, the PR
\* was seen CLOSED, or both check commands failed and mergeable was
\* CONFLICTING; a failed or unreadable fetch alone never makes it return
\* false.
C23_FalseForFourReasons ==
    (pc = "main_588" /\ checksPass = "false") =>
        \/ wfcReason = "timeout" /\ elapsed >= MAX_WAIT_TIME
        \/ wfcReason = "failed" /\ checks \cap FailBuckets # {}
        \/ wfcReason = "closed" /\ checks = NoChecks /\ fetched = NoFetched
        \/ /\ wfcReason = "conflicting"
           /\ prData = "CONFLICTING"
           /\ fetched = [checks |-> "failed", alt |-> "failed"]

C23_Witness ==
    /\ pc = "main_588"
    /\ checksPass = "false"
    /\ wfcReason = "conflicting"

\* C24: a failed gh pr checks is followed by the alternate API call, and
\* only when that fails too does mergeable decide: MERGEABLE returns true,
\* CONFLICTING returns false, anything else sleeps for the next cycle.
C24_FallbackOrder ==
    /\ (fetched.checks = "failed" /\ fetched.alt = "none") => pc = "wfc_228"
    /\ fetched.alt # "none" => fetched.checks = "failed"
    /\ fetched.alt = "failed" =>
           CASE prData = "MERGEABLE" -> pc = "main_588" /\ checksPass = "true"
             [] prData = "CONFLICTING" -> pc = "main_588" /\ checksPass = "false"
             [] OTHER -> pc = "wfc_sleep" /\ checksPass = "none"
    /\ (pc = "main_588" /\ wfcReason \in {"mergeable", "conflicting"}) =>
           fetched.alt = "failed"

C24_Witness ==
    /\ fetched.alt = "failed"
    /\ pc = "wfc_sleep"
    /\ prData = "UNKNOWN"

\* C25: when waitForChecks returned false the run ends as ChecksFailed or
\* Timeout with a non-zero exit code, and the run issues no merge request,
\* no conflict-resolution command and no release-create request.
C25_FalseEndsTheRun ==
    checksPass = "false" =>
        /\ pc \in {"main_588", "exit"}
        /\ pc = "exit" =>
               /\ outcome = (IF wfcReason = "timeout" THEN "Timeout" ELSE "ChecksFailed")
               /\ exitCode # 0
        /\ \A k \in {"merge", "release", "fetch", "forcePush", "checkout"} : calls[k] = 0
        /\ mergeCmd = "none"
        /\ ~mergeSuccessful
        /\ acr = NoAcr
        /\ viewed = NoView

C25_Witness ==
    /\ checksPass = "false"
    /\ pc = "exit"
    /\ outcome = "ChecksFailed"

\* C26: after a resolution that returned true, the merge request is issued
\* only when the re-fetch confirmed mergeable = MERGEABLE; otherwise the
\* run ends as ConflictUnresolved.
C26_MergeOnlyWhenConfirmed ==
    /\ (pc = "main_657" /\ acr.push = "ok") => reviewed = "MERGEABLE"
    /\ (reviewed \notin {"none", "MERGEABLE"}) =>
           pc = "exit" /\ outcome = "ConflictUnresolved"

\* C27: once the merge is confirmed the run ends in failure only after a
\* release-create request was issued and failed; the checkout, the pull,
\* the tag lookup and the notes file cannot fail the run.
C27_OnlyPublishErrorFails ==
    (pc = "exit" /\ MergeConfirmed /\ exitCode # 0) =>
        calls["release"] > 0

\* C28: in every terminal state of the run the notes file written by
\* createRelease is gone.
C28_NoNotesFileAtExit ==
    pc = "exit" => ~tempFile

\* C29: the version is the one main read at the start wherever the run
\* uses it: generateReleaseNotes searches the changelog for the heading of
\* that version, whatever the manifest holds by then.
C29_OneVersion ==
    notesVersion # "none" => notesVersion = version

\* C30: the run issues at most one gh pr create, and once getOrCreatePR
\* has returned no step changes the PR number the commands address,
\* creates a PR or queries the list of PRs.
C30_OnePullRequest ==
    [][/\ calls'["create"] <= 1
       /\ StageOf(pc, outcome) \notin {"PrereqCheck", "Push", "ResolvePR"} =>
              /\ prNumber # 0
              /\ prNumber' = prNumber
              /\ calls'["create"] = calls["create"]
              /\ firstList' = firstList
              /\ lastList' = lastList
              /\ createRes' = createRes]_vars

C30_Witness ==
    /\ pc = "exit"
    /\ outcome = "Done"
    /\ calls["create"] = 1
    /\ polls = CountCap
    /\ viewed # NoView \/ calls["merge"] = 1
    /\ mergeCmd = "failed"
    /\ recheck = "MERGED"

\* C31: when the PR of the run was merged by someone else before the run's
\* own merge took effect, the run does not end as ChecksFailed, and it ends
\* as MergeFailed only if the re-check after the failed merge command could
\* not read the PR state.
C31_OutOfBandMergeRecognised ==
    (pc = "exit" /\ prNumber # 0 /\ prs[prNumber] = "MERGED" /\ mergeCmd # "ok") =>
        /\ outcome # "ChecksFailed"
        /\ outcome = "MergeFailed" => recheck \in {"fail", "garbage"}

\* C32: the number taken from a creation response is the one after '#' if
\* there is one, else the one after 'pull/', else the trailing '/<digits>';
\* with no match the list query is issued and its first PR is the number,
\* and no number comes back only when that query gave no PR.
C32_ExtractionOrder ==
    /\ (pc = "gop_ret" /\ createRes = "number") =>
           /\ response.hash # 0 => prNumber = response.hash
           /\ (response.hash = 0 /\ response.pull # 0) => prNumber = response.pull
           /\ (response.hash = 0 /\ response.pull = 0) => prNumber = response.tail
           /\ lastList = NoList
    /\ createRes = "nonumber" =>
           /\ response = NoResponse
           /\ pc = "epn_391" \/ lastList # NoList
           /\ pc = "gop_ret" =>
                  lastList.kind = "ok" /\ lastList.val # <<>> /\ prNumber = Head(lastList.val)
           /\ pc = "gop_485" => (lastList.kind # "ok" \/ lastList.val = <<>>) /\ prNumber = 0

C32_Witness ==
    /\ pc = "gop_ret"
    /\ createRes = "number"
    /\ response.hash # 0
    /\ response.pull \notin {0, response.hash}

\* generateReleaseNotes has run: it is called after the pull returned.
Pulled == notesVersion # "none"

\* C33: the tag lookup and every release-create request come after a
\* checkout of main and a pull that both succeeded; until then no tag is
\* looked up and no release is requested.
C33_CheckoutAndPullFirst ==
    /\ (pc \in ReleasePcs \ {"cr_325", "cr_326"} \/ calls["release"] > 0 \/ existingTag # "none")
           => calls["checkout"] > 0 /\ wbranch = BASE_BRANCH /\ Pulled
    /\ pc = "cr_326" => calls["checkout"] > 0 /\ wbranch = BASE_BRANCH
    /\ pc \in {"cr_325", "cr_326"} => calls["release"] = 0 /\ existingTag = "none" /\ ~Pulled

C33_Witness ==
    /\ pc = "exit"
    /\ outcome = "Done"
    /\ currentBranch # BASE_BRANCH
    /\ wbranch = BASE_BRANCH
    /\ Pulled
    /\ fileRelease = "ok"
    /\ ~tempFile

\* C34: after a failed file-based release create one more release create
\* is issued, with the notes inline; the run ends in Done with exit code 0
\* if it succeeds and in failure with a non-zero exit code if it fails.
C34_InlineFallback ==
    fileRelease = "failed" =>
        /\ pc \in {"cr_363", "exit"}
        /\ pc = "cr_363" => inlineRelease = "none" /\ calls["release"] = 1
        /\ pc = "exit" =>
               /\ calls["release"] = 2
               /\ inlineRelease \in {"ok", "failed"}
               /\ inlineRelease = "ok" => outcome = "Done" /\ exitCode = 0 /\ tagExists
               /\ inlineRelease = "failed" => outcome = "Unexpected" /\ exitCode # 0

C34_Witness ==
    /\ pc = "exit"
    /\ fileRelease = "failed"
    /\ inlineRelease = "failed"

\* C35: once a release create has succeeded the run issues no further
\* release create, also when the notes file cannot be removed.
C35_OneRelease ==
    fileRelease = "ok" => inlineRelease = "none" /\ calls["release"] = 1

\* C36: when every cycle of the wait read the PR open and CONFLICTING with
\* an empty check list, waitForChecks returns false on the loop test only,
\* the run ends as Timeout with a non-zero exit code and no command of
\* attemptConflictResolution is issued; attemptConflictResolution is
\* entered only after waitForChecks returned true.
C36_ConflictWithoutChecksTimesOut ==
    /\ (conflictOnly /\ pc = "main_588") =>
           polls > 0 /\ checksPass = "false" /\ wfcReason = "timeout"
    /\ (conflictOnly /\ pc = "exit") =>
           /\ outcome = "Timeout"
           /\ exitCode # 0
           /\ calls["fetch"] = 0 /\ calls["forcePush"] = 0 /\ calls["merge"] = 0
           /\ acr = NoAcr
    /\ conflictOnly =>
           pc \in {"wfc_180", "wfc_185", "wfc_218", "wfc_228", "wfc_sleep", "main_588", "exit"}
    /\ (pc \in AcrPcs \/ acr # NoAcr) => checksPass = "true"

C36_Witness ==
    /\ conflictOnly
    /\ pc = "exit"
    /\ outcome = "Timeout"
    /\ polls = CountCap

\* C37: the handling of a statusUpdate message comes to an end without
\* exhausting the call stack, and leaves the loading element hidden, the
\* refresh button enabled and the Create Release button enabled exactly
\* when the status has no uncommitted changes and a branch other than main.
C37_StatusUpdateHandled ==
    /\ ~page.error
    /\ (page.fn = "idle" /\ page.last = "statusUpdate") =>
           /\ ~page.loading
           /\ ~page.refreshDisabled
           /\ page.createDisabled = ~canCreateRelease(page.currentStatus)

\* C38: when the page is in the loading state and the handler of its
\* createRelease message has returned without starting the release, a
\* statusUpdate that ends the loading state is on its way to the page.
C38_LoadingIsLeft ==
    (/\ host.open
     /\ page.fn = "idle"
     /\ page.loading
     /\ host.result \in {"noWorkspace", "dirty", "onMain", "declined"})
        => \/ toPage # <<>>
           \/ \E k \in 1..Len(toHost) : toHost[k] = "getStatus"

====
